---- MODULE Spec2Model ----
(***************************************************************************)
(* Model of er_cloudflare_account.import_tfstate: the import-tfstate CLI   *)
(* that imports a Cloudflare account and its members into Terraform state. *)
(*                                                                         *)
(* Strings the code inspects character by character (emails, resource     *)
(* keys) are tuples of one-character strings; strings it only passes on    *)
(* (account id, member id) are TLA+ strings.  An f-string is the tuple of  *)
(* its parts.  Optional objects are <<>> (None) or <<x>>.                  *)
(***************************************************************************)
EXTENDS Integers, Sequences, FiniteSets, TLC

VARIABLES
    account_id,          \* CloudflareAccount.account_id (None when absent)
    members,             \* CloudflareAccount.members, in declaration order
    listing,             \* what client.accounts.members.list answers
    dry_run,             \* Config().dry_run of each run
    pc,                  \* position of each run of main()
    account_result,      \* result of import_account, <<>> until it ran
    member_id_by_email,  \* the live-member index of import_account_members
    i,                   \* position of the for loop over members
    results,             \* the local list `results` of import_account_members
    returned,            \* the list import_state handed to main
    calls,               \* terraform_run invocations, in order
    list_calls,          \* number of list-members API calls
    status,              \* how main() ended
    arg,                 \* sanitize_email: the email under test
    once,                \* sanitize_email(arg), <<>> until computed
    twice                \* sanitize_email(sanitize_email(arg))

vars == <<account_id, members, listing, dry_run, pc, account_result,
          member_id_by_email, i, results, returned, calls, list_calls,
          status, arg, once, twice>>

runVars == <<dry_run, pc, account_result, member_id_by_email, i, results,
             returned, calls, list_calls, status>>

inputVars == <<account_id, members, listing>>

sanitizeVars == <<arg, once, twice>>

(***************************************************************************)
(* Bounds                                                                  *)
(***************************************************************************)
MaxMembers == 2      \* declared members per account
MaxLive == 2         \* live members the API lists
MaxLen == 3          \* length of an email given to sanitize_email alone

(***************************************************************************)
(* Characters and strings                                                  *)
(***************************************************************************)
Alphabet == {"a", "A", "1", "2", "-", "."}

\* the characters of the class [a-z0-9]
LowerAlnum == {"a", "1", "2"}

SeqsUpTo(S, n) == UNION {[1..k -> S] : k \in 0..n}

Strings == SeqsUpTo(Alphabet, MaxLen)

\* str.lower() on one character
lower_char(c) == IF c = "A" THEN "a" ELSE c

\* str.lower()
str_lower(s) == [k \in 1..Len(s) |-> lower_char(s[k])]

RECURSIVE SkipRun(_, _)
\* the rest of s after the maximal run of characters outside `keep`
SkipRun(keep, s) ==
    IF s # <<>> /\ Head(s) \notin keep THEN SkipRun(keep, Tail(s)) ELSE s

RECURSIVE re_sub(_, _)
\* re.sub(r"[^keep]+", "-", s)
re_sub(keep, s) ==
    IF s = <<>> THEN <<>>
    ELSE IF Head(s) \in keep THEN <<Head(s)>> \o re_sub(keep, Tail(s))
    ELSE <<"-">> \o re_sub(keep, SkipRun(keep, Tail(s)))

RECURSIVE replace_once(_)
\* s.replace("--", "-"): one left-to-right pass over non-overlapping pairs
replace_once(s) ==
    IF Len(s) < 2 THEN s
    ELSE IF s[1] = "-" /\ s[2] = "-" THEN <<"-">> \o replace_once(Tail(Tail(s)))
    ELSE <<Head(s)>> \o replace_once(Tail(s))

\* a hand-written run collapse: every character outside [a-z0-9] becomes a
\* hyphen, then double hyphens are replaced in a single pass
sanitize_email_collapse_once(email) ==
    replace_once([k \in 1..Len(email) |->
        IF lower_char(email[k]) \in LowerAlnum THEN lower_char(email[k]) ELSE "-"])

\* the pattern [^a-z]+ : digits are taken for separators
sanitize_email_drop_digits(email) == re_sub({"a"}, str_lower(email))

sanitize_email(email) == re_sub(LowerAlnum, str_lower(email))

(***************************************************************************)
(* Input document and API answer                                           *)
(***************************************************************************)
None == "None"

AccountIds == {"acct-123"}

\* the emails of the declared and live members: two that differ in case only,
\* two that differ in the separator only, and one that differs in a digit
Emails == { <<"a", ".", "1">>, <<"A", ".", "1">>, <<"a", "-", "1">>,
            <<"a", ".", "2">> }

Members == {[email |-> e] : e \in Emails}

\* Member.user of a live member: None, or a User whose email may be empty
LiveUsers == {<<>>} \cup {<<[email |-> e]>> : e \in Emails \cup {<<>>}}

MemberId(k) == "member-" \o ToString(k)

\* the API answers with an exception, or with the members; ids are unique
Listings ==
    {[ok |-> FALSE, members |-> <<>>]} \cup
    {[ok |-> TRUE,
      members |-> [k \in 1..Len(us) |-> [id |-> MemberId(k), user |-> us[k]]]]
        : us \in SeqsUpTo(LiveUsers, MaxLive)}

(***************************************************************************)
(* ImportResult and the import executor                                    *)
(***************************************************************************)
NoMessage == <<>>

ImportResult(address, import_id, success, error_message) ==
    [resource_address |-> address, import_id |-> import_id,
     success |-> success, error_message |-> error_message]

\* terraform_run(["import", resource_address, import_id], dry_run=dry_run)
terraform_run(address, import_id, dry) ==
    [resource_address |-> address, import_id |-> import_id, dry_run |-> dry]

\* what the external command reports: it returns, or raises the
\* CalledProcessError that import_resource catches
Outcomes == {"ok", "CalledProcessError"}

\* a failed command is run a second time
import_resource_retry(address, import_id, dry, outcome) ==
    IF outcome = "ok"
    THEN [calls |-> <<terraform_run(address, import_id, dry)>>,
          result |-> ImportResult(address, import_id, TRUE, NoMessage)]
    ELSE [calls |-> <<terraform_run(address, import_id, dry),
                      terraform_run(address, import_id, dry)>>,
          result |-> ImportResult(address, import_id, FALSE,
                                  <<"CalledProcessError">>)]

\* a dry run reports success without calling terraform_run
import_resource_skip_in_dry_run(address, import_id, dry, outcome) ==
    IF dry
    THEN [calls |-> <<>>,
          result |-> ImportResult(address, import_id, TRUE, NoMessage)]
    ELSE [calls |-> <<terraform_run(address, import_id, dry)>>,
          result |-> IF outcome = "ok"
                     THEN ImportResult(address, import_id, TRUE, NoMessage)
                     ELSE ImportResult(address, import_id, FALSE,
                                       <<"CalledProcessError">>)]

\* one invocation; a CalledProcessError becomes a failed result
import_resource(address, import_id, dry, outcome) ==
    [calls |-> <<terraform_run(address, import_id, dry)>>,
     result |-> IF outcome = "ok"
                THEN ImportResult(address, import_id, TRUE, NoMessage)
                ELSE ImportResult(address, import_id, FALSE,
                                  <<"CalledProcessError">>)]

AccountAddress == <<"cloudflare_account.this">>

import_account(aid, dry, outcome) ==
    import_resource(AccountAddress, <<aid>>, dry, outcome)

(***************************************************************************)
(* import_account_members                                                  *)
(***************************************************************************)
\* the filter of the dict comprehension: member.user and user.email truthy
HasEmail(m) == m.user # <<>> /\ m.user[1].email # <<>>

\* {email: member.id for member in listed if ...}: a later member wins
build_index(listed) ==
    LET with == {k \in 1..Len(listed) : HasEmail(listed[k])}
        last(e) == CHOOSE k \in with :
                      /\ listed[k].user[1].email = e
                      /\ \A j \in with : listed[j].user[1].email = e => j <= k
    IN [e \in {listed[k].user[1].email : k \in with} |-> listed[last(e)].id]

member_address(email) ==
    <<"cloudflare_account_member.this", sanitize_email(email)>>

not_found_message(email) == <<"Account member '", email, "' not found">>

\* the lookup result is not tested: a missing member is imported as ".../None"
import_member_unchecked(aid, index, member, dry, outcome) ==
    import_resource(member_address(member.email),
                    <<aid, "/", IF member.email \in DOMAIN index
                                THEN index[member.email] ELSE None>>,
                    dry, outcome)

\* one iteration of `for member in members`
import_member(aid, index, member, dry, outcome) ==
    IF member.email \notin DOMAIN index
    THEN [calls |-> <<>>,
          result |-> ImportResult(member_address(member.email), <<>>, FALSE,
                                  not_found_message(member.email))]
    ELSE import_resource(member_address(member.email),
                         <<aid, "/", index[member.email]>>, dry, outcome)

(***************************************************************************)
(* main                                                                    *)
(***************************************************************************)
RECURSIVE count_failed(_)
\* sum(1 for r in results if not r.success)
count_failed(rs) ==
    IF rs = <<>> THEN 0
    ELSE (IF Head(rs).success THEN 0 ELSE 1) + count_failed(Tail(rs))

\* the tally is taken over the successes
main_exit_no_success(rs) ==
    IF count_failed(rs) = Len(rs) THEN "SystemExit(1)" ELSE "exit 0"

main_exit(rs) == IF count_failed(rs) > 0 THEN "SystemExit(1)" ELSE "exit 0"

\* the precondition is not tested
account_id_missing_unchecked(aid) == FALSE

account_id_missing(aid) == aid = None

(***************************************************************************)
(* Runs                                                                    *)
(***************************************************************************)
Runs == {1, 2}

EmptyIndex == [e \in {} |-> None]

IdleRun(first) ==
    /\ pc = [r \in Runs |-> IF first[r] THEN "start" ELSE "idle"]
    /\ account_result = [r \in Runs |-> <<>>]
    /\ member_id_by_email = [r \in Runs |-> EmptyIndex]
    /\ i = [r \in Runs |-> 0]
    /\ results = [r \in Runs |-> <<>>]
    /\ returned = [r \in Runs |-> <<>>]
    /\ calls = [r \in Runs |-> <<>>]
    /\ list_calls = [r \in Runs |-> 0]
    /\ status = [r \in Runs |-> "running"]

NoSanitize ==
    /\ arg = <<>>
    /\ once = <<>>
    /\ twice = <<>>

Inputs ==
    /\ account_id \in AccountIds \cup {None}
    /\ members \in SeqsUpTo(Members, MaxMembers)
    /\ listing \in Listings

\* one run of main()
Init ==
    /\ Inputs
    /\ dry_run \in {[r \in Runs |-> IF r = 1 THEN d ELSE FALSE] : d \in BOOLEAN}
    /\ IdleRun([r \in Runs |-> r = 1])
    /\ NoSanitize

\* main() up to the precondition of import_state; one instance runs at a time
import_state(r) ==
    /\ pc[r] = "start"
    /\ \A q \in Runs : q < r => pc[q] \in {"done", "idle"}
    /\ IF account_id_missing(account_id)
       THEN /\ pc' = [pc EXCEPT ![r] = "done"]
            /\ status' = [status EXCEPT ![r] = "AccountNotFoundError"]
       ELSE /\ pc' = [pc EXCEPT ![r] = "import_account"]
            /\ UNCHANGED status
    /\ UNCHANGED <<inputVars, sanitizeVars, dry_run, account_result,
                   member_id_by_email, i, results, returned, calls, list_calls>>

import_account_step(r) ==
    /\ pc[r] = "import_account"
    /\ \E outcome \in Outcomes :
         LET done == import_account(account_id, dry_run[r], outcome)
         IN /\ calls' = [calls EXCEPT ![r] = @ \o done.calls]
            /\ account_result' = [account_result EXCEPT ![r] = <<done.result>>]
    /\ pc' = [pc EXCEPT ![r] = "list_members"]
    /\ UNCHANGED <<inputVars, sanitizeVars, dry_run, member_id_by_email, i,
                   results, returned, list_calls, status>>

\* the try block of import_account_members
list_members(r) ==
    /\ pc[r] = "list_members"
    /\ list_calls' = [list_calls EXCEPT ![r] = @ + 1]
    /\ IF listing.ok
       THEN /\ member_id_by_email' =
                  [member_id_by_email EXCEPT ![r] = build_index(listing.members)]
            /\ i' = [i EXCEPT ![r] = 1]
            /\ pc' = [pc EXCEPT ![r] = "for_members"]
            /\ UNCHANGED returned
       ELSE /\ returned' = [returned EXCEPT ![r] = account_result[r]]
            /\ pc' = [pc EXCEPT ![r] = "tally"]
            /\ UNCHANGED <<member_id_by_email, i>>
    /\ UNCHANGED <<inputVars, sanitizeVars, dry_run, account_result, results,
                   calls, status>>

for_member(r) ==
    /\ pc[r] = "for_members"
    /\ i[r] <= Len(members)
    /\ \E outcome \in Outcomes :
         LET done == import_member(account_id, member_id_by_email[r],
                                   members[i[r]], dry_run[r], outcome)
         IN /\ calls' = [calls EXCEPT ![r] = @ \o done.calls]
            /\ results' = [results EXCEPT ![r] = Append(@, done.result)]
    /\ i' = [i EXCEPT ![r] = @ + 1]
    /\ UNCHANGED <<inputVars, sanitizeVars, dry_run, pc, account_result,
                   member_id_by_email, returned, list_calls, status>>

\* the loop is over: import_account_members and import_state return
return_results(r) ==
    /\ pc[r] = "for_members"
    /\ i[r] > Len(members)
    /\ returned' = [returned EXCEPT ![r] = account_result[r] \o results[r]]
    /\ pc' = [pc EXCEPT ![r] = "tally"]
    /\ UNCHANGED <<inputVars, sanitizeVars, dry_run, account_result,
                   member_id_by_email, i, results, calls, list_calls, status>>

main_tally(r) ==
    /\ pc[r] = "tally"
    /\ status' = [status EXCEPT ![r] = main_exit(returned[r])]
    /\ pc' = [pc EXCEPT ![r] = "done"]
    /\ UNCHANGED <<inputVars, sanitizeVars, dry_run, account_result,
                   member_id_by_email, i, results, returned, calls, list_calls>>

Next ==
    \E r \in Runs :
        \/ import_state(r)
        \/ import_account_step(r)
        \/ list_members(r)
        \/ for_member(r)
        \/ return_results(r)
        \/ main_tally(r)

Spec == Init /\ [][Next]_vars

(***************************************************************************)
(* Two runs of main() over the same input document and the same API        *)
(* answer, one with DRY_RUN set and one without                            *)
(***************************************************************************)
InitPair ==
    /\ Inputs
    /\ dry_run = [r \in Runs |-> r = 1]
    /\ IdleRun([r \in Runs |-> TRUE])
    /\ NoSanitize

SpecPair == InitPair /\ [][Next]_vars

(***************************************************************************)
(* sanitize_email on its own                                               *)
(***************************************************************************)
InitSanitize ==
    /\ account_id = None
    /\ members = <<>>
    /\ listing = [ok |-> FALSE, members |-> <<>>]
    /\ dry_run = [r \in Runs |-> FALSE]
    /\ IdleRun([r \in Runs |-> FALSE])
    /\ arg \in Strings
    /\ once = <<>>
    /\ twice = <<>>

sanitize_once ==
    /\ once = <<>>
    /\ once' = <<sanitize_email(arg)>>
    /\ UNCHANGED <<inputVars, runVars, arg, twice>>

sanitize_twice ==
    /\ once # <<>>
    /\ twice = <<>>
    /\ twice' = <<sanitize_email(once[1])>>
    /\ UNCHANGED <<inputVars, runVars, arg, once>>

NextSanitize == sanitize_once \/ sanitize_twice

SpecSanitize == InitSanitize /\ [][NextSanitize]_vars

(***************************************************************************)
(* Properties                                                              *)
(***************************************************************************)
\* import_state of run r returned normally
Returned(r) == pc[r] \in {"tally", "done"} /\ status[r] # "AccountNotFoundError"

\* the member results produced so far in run r
Processed(r) == 1..Len(results[r])

\* the declared members, among the first n, that the index of run r holds
Found(r, n) ==
    SelectSeq(SubSeq(members, 1, n),
              LAMBDA m : m.email \in DOMAIN member_id_by_email[r])

\* C1: with a known account id import_state returns exactly 1 + n results,
\* whatever the list-members call and the import commands do: first the
\* account result (cloudflare_account.this, the account id), then the result
\* of the i-th declared member at position i + 1.
C1_OnePlusNResults ==
    \A r \in Runs :
        (account_id # None /\ Returned(r)) =>
            /\ Len(returned[r]) = 1 + Len(members)
            /\ returned[r][1].resource_address = <<"cloudflare_account.this">>
            /\ returned[r][1].import_id = <<account_id>>
            /\ \A k \in 1..Len(members) :
                 returned[r][k + 1].resource_address =
                     <<"cloudflare_account_member.this",
                       sanitize_email(members[k].email)>>

\* C2: when import_state returned, main ends with SystemExit(1) if some
\* returned result has success = false and ends normally (status 0) if all
\* have success = true; it has not ended before the tally.
C2_ExitStatus ==
    \A r \in Runs :
        Returned(r) =>
            LET failed == {k \in DOMAIN returned[r] : ~returned[r][k].success}
            IN /\ pc[r] = "tally" => status[r] = "running"
               /\ (pc[r] = "done" /\ failed # {}) => status[r] = "SystemExit(1)"
               /\ (pc[r] = "done" /\ failed = {}) => status[r] = "exit 0"

C2_Witness ==
    \E r \in Runs :
        /\ pc[r] = "done"
        /\ status[r] = "SystemExit(1)"
        /\ Len(returned[r]) = 3
        /\ returned[r][1].success
        /\ ~returned[r][2].success
        /\ returned[r][3].success

\* C3: when the list-members call raises, nothing is propagated and every
\* declared member is reported as not found: one failed result per declared
\* member, no import command for any member, and exit status 1 as soon as
\* one member is declared.
C3_ListFailureFailsEveryMember ==
    \A r \in Runs :
        (~listing.ok /\ Returned(r)) =>
            /\ Len(calls[r]) = 1
            /\ Len(returned[r]) = 1 + Len(members)
            /\ \A k \in 1..Len(members) : ~returned[r][k + 1].success
            /\ (pc[r] = "done" /\ Len(members) >= 1) =>
                   status[r] = "SystemExit(1)"

\* C4: a declared member whose email the live-member index does not hold
\* gets a result with success = false, an empty import id and the message
\* naming the email; no import command is invoked for it (the commands are
\* the account's and one per member found), the later members are processed
\* all the same, and the account import is attempted exactly once.
C4_NotFoundMember ==
    \A r \in Runs :
        (pc[r] = "for_members" \/ Returned(r)) =>
            LET missing == {k \in Processed(r) :
                    members[k].email \notin DOMAIN member_id_by_email[r]}
                account_calls == {k \in DOMAIN calls[r] :
                    calls[r][k].resource_address = <<"cloudflare_account.this">>}
            IN /\ \A k \in missing :
                    results[r][k] =
                        [resource_address |->
                             <<"cloudflare_account_member.this",
                               sanitize_email(members[k].email)>>,
                         import_id |-> <<>>,
                         success |-> FALSE,
                         error_message |->
                             <<"Account member '", members[k].email,
                               "' not found">>]
               /\ Len(calls[r]) = 1 + Cardinality(Processed(r) \ missing)
               /\ Cardinality(account_calls) = 1
               /\ pc[r] = "for_members" => Len(results[r]) = i[r] - 1
               /\ (listing.ok /\ Returned(r)) =>
                      /\ Len(results[r]) = Len(members)
                      /\ returned[r] = account_result[r] \o results[r]

C4_Witness ==
    \E r \in Runs :
        /\ pc[r] = "done"
        /\ Len(members) = 2
        /\ members[1].email \notin DOMAIN member_id_by_email[r]
        /\ members[2].email \in DOMAIN member_id_by_email[r]
        /\ returned[r][2].import_id = <<>>
        /\ returned[r][3].success
        /\ Len(calls[r]) = 2

\* the commands run r must have invoked once the first n declared members
\* are processed: the account's, then one per member the index holds
ExpectedCalls(r, n) ==
    LET found == Found(r, n)
    IN <<[resource_address |-> <<"cloudflare_account.this">>,
          import_id |-> <<account_id>>,
          dry_run |-> dry_run[r]]>>
       \o [k \in 1..Len(found) |->
             [resource_address |->
                  <<"cloudflare_account_member.this",
                    sanitize_email(found[k].email)>>,
              import_id |->
                  <<account_id, "/", member_id_by_email[r][found[k].email]>>,
              dry_run |-> dry_run[r]]]

\* C5: with a known account id the import commands invoked are, in order,
\* the account's (cloudflare_account.this, account id) and then, for each
\* declared member the live-member index holds, in declaration order, the
\* member's (address keyed by the sanitized email, "<account id>/<live
\* id>"); each exactly once, whatever the earlier commands reported.
C5_InvocationSequence ==
    \A r \in Runs :
        (account_id # None /\ pc[r] # "idle") =>
            /\ pc[r] \in {"start", "import_account"} => calls[r] = <<>>
            /\ pc[r] = "list_members" => calls[r] = ExpectedCalls(r, 0)
            /\ pc[r] = "for_members" => calls[r] = ExpectedCalls(r, i[r] - 1)
            /\ pc[r] \in {"tally", "done"} =>
                   calls[r] = ExpectedCalls(r, Len(members))

C5_Witness ==
    \E r \in Runs :
        /\ pc[r] = "done"
        /\ Len(calls[r]) = 3
        /\ returned[r][1].error_message = <<"CalledProcessError">>
        /\ returned[r][2].error_message = <<"CalledProcessError">>
        /\ returned[r][3].success

\* C6: without an account id import_state raises AccountNotFoundError and
\* produces nothing: no import command, no list-members call, no result, and
\* main ends with that error, not with the tally's exit status.
C6_MissingAccountId ==
    \A r \in Runs :
        (account_id = None /\ pc[r] # "idle") =>
            /\ pc[r] \in {"start", "done"}
            /\ calls[r] = <<>>
            /\ list_calls[r] = 0
            /\ account_result[r] = <<>>
            /\ results[r] = <<>>
            /\ returned[r] = <<>>
            /\ pc[r] = "start" => status[r] = "running"
            /\ pc[r] = "done" => status[r] = "AccountNotFoundError"

C6_Witness ==
    \E r \in Runs :
        /\ account_id = None
        /\ pc[r] = "done"
        /\ status[r] = "AccountNotFoundError"
        /\ members # <<>>
        /\ listing.ok

\* the (resource address, import id) pairs of a sequence of invocations
Attempts(cs) ==
    [k \in 1..Len(cs) |-> <<cs[k].resource_address, cs[k].import_id>>]

\* C7: every import command receives the run's own dry_run value, and two
\* runs over the same account configuration and live members, one dry and
\* one not, attempt the same (resource address, import id) pairs in the same
\* order.
C7_DryRunThreaded ==
    /\ \A r \in Runs : \A k \in DOMAIN calls[r] :
           calls[r][k].dry_run = dry_run[r]
    /\ (\A r \in Runs : pc[r] = "done") =>
           \A r, q \in Runs : Attempts(calls[r]) = Attempts(calls[q])

C7_Witness ==
    /\ \A r \in Runs : pc[r] = "done"
    /\ dry_run[1] /\ ~dry_run[2]
    /\ Len(calls[1]) = 3
    /\ Len(calls[2]) = 3
    /\ returned[1][2].success
    /\ ~returned[2][2].success

\* C8: a declared member whose email differs from a live member's only in
\* letter case is found and imported with "<account id>/<that live member's
\* id>".
C8_CaseInsensitiveMatch ==
    \A r \in Runs : \A k \in Processed(r) :
        LET same == {j \in DOMAIN listing.members :
                /\ HasEmail(listing.members[j])
                /\ str_lower(listing.members[j].user[1].email) =
                       str_lower(members[k].email)}
        IN same # {} =>
               \E j \in same :
                   results[r][k].import_id =
                       <<account_id, "/", listing.members[j].id>>

\* C9: sanitize_email is idempotent.
C9_SanitizeIdempotent ==
    twice # <<>> => twice[1] = once[1]

C9_Witness ==
    /\ twice # <<>>
    /\ Len(arg) = 3
    /\ arg[1] = "A"
    /\ arg[2] \notin LowerAlnum
    /\ arg[3] \notin LowerAlnum
    /\ once[1] = <<"a", "-">>

\* C10: two declared members with different emails get different member
\* resource addresses.
C10_DistinctEmailsDistinctAddresses ==
    \A r \in Runs : \A j, k \in Processed(r) :
        members[j].email # members[k].email =>
            results[r][j].resource_address # results[r][k].resource_address

\* the letters and digits of an email, lower-cased
Alnum(email) == SelectSeq(str_lower(email), LAMBDA c : c \in LowerAlnum)

\* C10 as amended: two declared members whose emails differ in their
\* lower-cased letters and digits get different member resource addresses,
\* and no member address is the account's.
C10_DistinctAlnumDistinctAddresses ==
    \A r \in Runs : \A j, k \in Processed(r) :
        /\ results[r][j].resource_address # <<"cloudflare_account.this">>
        /\ Alnum(members[j].email) # Alnum(members[k].email) =>
               results[r][j].resource_address # results[r][k].resource_address

C10_Witness ==
    \E r \in Runs :
        /\ pc[r] = "done"
        /\ Len(results[r]) = 2
        /\ members[1].email = <<"a", ".", "1">>
        /\ members[2].email = <<"a", ".", "2">>
        /\ results[r][1].resource_address # results[r][2].resource_address

====
